---- MODULE Spec2Model ----
(***************************************************************************)
(* Model of MeshType_3d_sphereshellseptum1                                 *)
(* (mapclientplugins/meshgeneratorstep/meshtypes/                          *)
(*  meshtype_3d_sphereshellseptum1.py): the option clamp checkOptions and  *)
(* the mesh generator generateMesh, seen through the calls it makes on the *)
(* finite-element engine (field module, nodeset, mesh).                    *)
(*                                                                         *)
(* Lengths are exact rationals counted in quarters: a wall thickness of    *)
(* 0.25 is 1, 0.5 is 2.  Scale-factor values are sign * cos(pi/4)^k.       *)
(***************************************************************************)
EXTENDS Integers, Sequences, FiniteSets

\* ------------------------------------------------------------------ bounds
MaxUp == 4
MaxAcross == 4
MaxChecks == 2
MaxFaults == 1

\* 0.5, in quarters: the upper clamp of a wall thickness, and the 0.5 of radiusX
MaxThickness == 2
Half == 2

VARIABLES
    raw,                \* the options dict as first handed to checkOptions
    options,            \* the options dict (mutated in place by checkOptions)
    checks,             \* number of checkOptions calls made
    pc,                 \* position of generateMesh
    beginCalls,         \* number of fm.beginChange() calls
    endCalls,           \* number of fm.endChange() calls
    outside,            \* a collaborator call was made outside beginChange..endChange
    created,            \* field, node templates, efts and element templates created so far
    n3, n2, n1,         \* loop variables of node creation
    nodeIdentifier,
    nodes,              \* the createNode calls, in order, with what was set on each node
    e2, e1,             \* loop variables of element creation
    elementIdentifier,
    elements,           \* the createElement calls, in order, with nodes and scale factors
    faultsLeft          \* collaborator failures the engine may still report

vars == <<raw, options, checks, pc, beginCalls, endCalls, outside, created,
          n3, n2, n1, nodeIdentifier, nodes, e2, e1, elementIdentifier, elements,
          faultsLeft>>

genVars == <<pc, beginCalls, endCalls, outside, created,
             n3, n2, n1, nodeIdentifier, nodes, e2, e1, elementIdentifier, elements,
             faultsLeft>>

\* ----------------------------------------------------------------- options
\* up: 'Number of elements up', across: 'Number of elements across',
\* wtL / wtR: 'Wall thickness left' / 'right' (quarters),
\* offset: 'Apex scale factor identifier offset', cross: 'Use cross derivatives'
getDefaultOptions ==
    [up |-> 4, across |-> 2, wtL |-> 1, wtR |-> 1, offset |-> 10000, cross |-> FALSE]

OffsetValues == {-1, 0, 3, 10000}

RawOptions ==
    [up : 0..MaxUp, across : 1..MaxAcross,
     wtL : -1..(MaxThickness + 1), wtR : -1..(MaxThickness + 1),
     offset : OffsetValues, cross : BOOLEAN]

checkOptionsSkipsUpperClamp(o) ==
    LET o1 == IF o.up < 2 THEN [o EXCEPT !.up = 2] ELSE o
        o2 == IF o1.across < 2 THEN [o1 EXCEPT !.across = 2] ELSE o1
        o3 == IF o2.wtL < 0 THEN [o2 EXCEPT !.wtL = 0] ELSE o2
        o4 == IF o3.wtR < 0 THEN [o3 EXCEPT !.wtR = 0]
              ELSE IF o3.wtR > MaxThickness THEN [o3 EXCEPT !.wtR = MaxThickness]
              ELSE o3
    IN  IF o4.offset < 0 THEN [o4 EXCEPT !.offset = 0] ELSE o4

checkOptions(o) ==
    LET o1 == IF o.up < 2 THEN [o EXCEPT !.up = 2] ELSE o
        o2 == IF o1.across < 2 THEN [o1 EXCEPT !.across = 2] ELSE o1
        o3 == IF o2.wtL < 0 THEN [o2 EXCEPT !.wtL = 0]
              ELSE IF o2.wtL > MaxThickness THEN [o2 EXCEPT !.wtL = MaxThickness]
              ELSE o2
        o4 == IF o3.wtR < 0 THEN [o3 EXCEPT !.wtR = 0]
              ELSE IF o3.wtR > MaxThickness THEN [o3 EXCEPT !.wtR = MaxThickness]
              ELSE o3
    IN  IF o4.offset < 0 THEN [o4 EXCEPT !.offset = 0] ELSE o4

\* the option sets checkOptions leaves as they are
ValidOptions == {o \in RawOptions : checkOptions(o) = o}

\* ------------------------------------------- element field templates (efts)
\* Node value labels in the order of the 8 tricubic Hermite functions of a node:
\* function n*8 + 1 is the value, n*8 + 2 d/dxi1, n*8 + 3 d/dxi2, n*8 + 5 d/dxi3,
\* n*8 + 4, 6, 7, 8 the cross derivatives.
BasisLabel ==
    <<"VALUE", "D_DS1", "D_DS2", "D2_DS1DS2", "D_DS3", "D2_DS1DS3", "D2_DS2DS3",
      "D3_DS1DS2DS3">>

apexScaleFactorIdentifierOffset == 10000

\* range(a) of the source, as a sequence
range(n) == [i \in 1..n |-> i - 1]

\* mesh.createElementfieldtemplate(tricubicHermiteBasis): 64 functions of one
\* unscaled term each, no local scale factors
createElementfieldtemplate ==
    [nsf |-> 0,
     sfType |-> <<>>,
     sfId |-> <<>>,
     terms |-> [fn \in 1..64 |->
                  << [ln |-> ((fn - 1) \div 8) + 1,
                      label |-> BasisLabel[((fn - 1) % 8) + 1],
                      scaling |-> <<>>] >>]]

NoTerm == [ln |-> 0, label |-> "NONE", scaling |-> <<>>]

setNumberOfLocalScaleFactors(t, n) ==
    [t EXCEPT !.nsf = n,
              !.sfType = [i \in 1..n |-> "NONE"],
              !.sfId = [i \in 1..n |-> 0]]

setScaleFactorType(t, i, type) == [t EXCEPT !.sfType[i] = type]

setScaleFactorIdentifier(t, i, id) == [t EXCEPT !.sfId[i] = id]

setFunctionNumberOfTerms(t, fn, n) ==
    [t EXCEPT !.terms[fn] =
        [i \in 1..n |-> IF i <= Len(@) THEN @[i] ELSE NoTerm]]

setTermNodeParameter(t, fn, term, ln, label) ==
    [t EXCEPT !.terms[fn][term].ln = ln, !.terms[fn][term].label = label]

setTermScaling(t, fn, term, indexes) ==
    [t EXCEPT !.terms[fn][term].scaling = indexes]

\* for n in noCrossRange: drop the four cross-derivative functions of node n
RECURSIVE noCross(_, _)
noCross(t, noCrossRange) ==
    IF noCrossRange = <<>> THEN t
    ELSE LET n == Head(noCrossRange)
             t4 == setFunctionNumberOfTerms(t, n*8 + 4, 0)
             t6 == setFunctionNumberOfTerms(t4, n*8 + 6, 0)
             t7 == setFunctionNumberOfTerms(t6, n*8 + 7, 0)
             t8 == setFunctionNumberOfTerms(t7, n*8 + 8, 0)
         IN  noCross(t8, Tail(noCrossRange))

\* for s in range(8): node-general scale factor first + s, identifier
\* (s % 2) + 1, plus the apex offset where apex[s + 1] holds
RECURSIVE nodeScaleFactors(_, _, _, _)
nodeScaleFactors(t, first, ss, apex) ==
    IF ss = <<>> THEN t
    ELSE LET s == Head(ss)
             scaleFactorId ==
                 IF apex[s + 1] THEN (s % 2) + 1 + apexScaleFactorIdentifierOffset
                 ELSE (s % 2) + 1
             t1 == setScaleFactorType(t, first + s, "NODE_GENERAL")
             t2 == setScaleFactorIdentifier(t1, first + s, scaleFactorId)
         IN  nodeScaleFactors(t2, first, Tail(ss), apex)

\* "general linear map dxi1 from ds1 + ds3 for first 4 nodes": function n*8 + 2
\* becomes scaling1[n] * D_DS1 + scaling3[n] * D_DS3 of local node n + 1
RECURSIVE linearMapDxi1(_, _, _, _)
linearMapDxi1(t, ns, scaling1, scaling3) ==
    IF ns = <<>> THEN t
    ELSE LET n == Head(ns)
             ln == n + 1
             ta == setFunctionNumberOfTerms(t, n*8 + 2, 2)
             tb == setTermNodeParameter(ta, n*8 + 2, 1, ln, "D_DS1")
             tc == setTermScaling(tb, n*8 + 2, 1, scaling1[n])
             td == setTermNodeParameter(tc, n*8 + 2, 2, ln, "D_DS3")
             te == setTermScaling(td, n*8 + 2, 2, scaling3[n])
         IN  linearMapDxi1(te, Tail(ns), scaling1, scaling3)

\* "general linear map dxi3 from ds1 + ds3" for the nodes ns, the s-th of them
\* (s counted from 0) scaled by scaling1[s], scaling3[s]
RECURSIVE linearMapDxi3(_, _, _, _, _)
linearMapDxi3(t, ns, s, scaling1, scaling3) ==
    IF ns = <<>> THEN t
    ELSE LET n == Head(ns)
             ln == n + 1
             ta == setFunctionNumberOfTerms(t, n*8 + 5, 2)
             tb == setTermNodeParameter(ta, n*8 + 5, 1, ln, "D_DS1")
             tc == setTermScaling(tb, n*8 + 5, 1, scaling1[s])
             td == setTermNodeParameter(tc, n*8 + 5, 2, ln, "D_DS3")
             te == setTermScaling(td, n*8 + 5, 2, scaling3[s])
         IN  linearMapDxi3(te, Tail(ns), s + 1, scaling1, scaling3)

\* for n in ns: setTermScaling(n*8 + f, 1, [1])
RECURSIVE negateTerm(_, _, _)
negateTerm(t, ns, f) ==
    IF ns = <<>> THEN t
    ELSE negateTerm(setTermScaling(t, Head(ns)*8 + f, 1, <<1>>), Tail(ns), f)

NoApex == [i \in 1..8 |-> FALSE]

eft(useCrossDerivatives) ==
    IF ~useCrossDerivatives THEN noCross(createElementfieldtemplate, range(8))
    ELSE createElementfieldtemplate

eftOuter(useCrossDerivatives) ==
    LET t0 == setNumberOfLocalScaleFactors(createElementfieldtemplate, 8)
        t1 == nodeScaleFactors(t0, 1, range(8), NoApex)
        t2 == noCross(t1, IF useCrossDerivatives THEN range(4) ELSE range(8))
        s1 == [n \in 0..3 |-> <<n*2 + 1>>]
        s3 == [n \in 0..3 |-> <<n*2 + 2>>]
    IN  linearMapDxi1(t2, range(4), s1, s3)

eftOuterApex0(useCrossDerivatives) ==
    LET t0 == setNumberOfLocalScaleFactors(createElementfieldtemplate, 8)
        t1 == nodeScaleFactors(t0, 1, range(8), [i \in 1..8 |-> i - 1 < 4])
        t2 == noCross(t1, IF useCrossDerivatives THEN range(4) ELSE range(8))
        s1 == [n \in 0..3 |-> <<n*2 + 1>>]
        s3 == [n \in 0..3 |-> <<n*2 + 2>>]
    IN  linearMapDxi1(t2, range(4), s1, s3)

\* the body of "for eftOuterApex in [ eftOuterApex1, eftOuterApex2 ]", i = 1, 2
eftOuterApex(i, useCrossDerivatives) ==
    LET t0 == setNumberOfLocalScaleFactors(createElementfieldtemplate, 9)
        t1 == setScaleFactorIdentifier(
                  setScaleFactorType(t0, 1, "GLOBAL_GENERAL"), 1, 1)
        t2 == nodeScaleFactors(t1, 2, range(8),
                  [j \in 1..8 |-> \/ (i = 1 /\ j - 1 < 4)
                                  \/ (i = 2 /\ j - 1 >= 4)])
        t3 == noCross(t2, IF useCrossDerivatives THEN range(4) ELSE range(8))
        negate(n) == (i = 1) /\ (n < 2)
        s1 == [n \in 0..3 |-> IF negate(n) THEN <<1, n*2 + 2>> ELSE <<n*2 + 2>>]
        s3 == [n \in 0..3 |-> IF negate(n) THEN <<1, n*2 + 3>> ELSE <<n*2 + 3>>]
        t4 == linearMapDxi1(t3, range(4), s1, s3)
        negateNodes1 == IF i = 1 THEN <<4, 5>> ELSE <<6, 7>>
        negateNodes2 == IF i = 1 THEN <<0, 1, 4, 5>> ELSE <<2, 3, 6, 7>>
    IN  negateTerm(negateTerm(t4, negateNodes1, 2), negateNodes2, 3)

eftOuterApex1(useCrossDerivatives) == eftOuterApex(1, useCrossDerivatives)

eftOuterApex2(useCrossDerivatives) == eftOuterApex(2, useCrossDerivatives)

eftInner1KeepsCrossOfOddNodes(useCrossDerivatives) ==
    LET t0 == setNumberOfLocalScaleFactors(createElementfieldtemplate, 9)
        t1 == setScaleFactorIdentifier(
                  setScaleFactorType(t0, 1, "GLOBAL_GENERAL"), 1, 1)
        t2 == nodeScaleFactors(t1, 2, range(8), NoApex)
        t3 == noCross(t2, <<0, 2, 4, 6>>)
        s1 == [s \in 0..3 |-> <<s*2 + 2>>]
        s3 == [s \in 0..3 |-> <<s*2 + 3>>]
        t4 == linearMapDxi3(t3, <<0, 2, 4, 6>>, 0, s1, s3)
    IN  negateTerm(t4, <<4, 6>>, 2)

eftInner1(useCrossDerivatives) ==
    LET t0 == setNumberOfLocalScaleFactors(createElementfieldtemplate, 9)
        t1 == setScaleFactorIdentifier(
                  setScaleFactorType(t0, 1, "GLOBAL_GENERAL"), 1, 1)
        t2 == nodeScaleFactors(t1, 2, range(8), NoApex)
        t3 == noCross(t2, IF useCrossDerivatives THEN <<0, 2, 4, 6>> ELSE range(8))
        s1 == [s \in 0..3 |-> <<s*2 + 2>>]
        s3 == [s \in 0..3 |-> <<s*2 + 3>>]
        t4 == linearMapDxi3(t3, <<0, 2, 4, 6>>, 0, s1, s3)
    IN  negateTerm(t4, <<4, 6>>, 2)

eftInner2(useCrossDerivatives) ==
    LET t0 == setNumberOfLocalScaleFactors(createElementfieldtemplate, 9)
        t1 == setScaleFactorIdentifier(
                  setScaleFactorType(t0, 1, "GLOBAL_GENERAL"), 1, 1)
        t2 == nodeScaleFactors(t1, 2, range(8), NoApex)
        t3 == noCross(t2, IF useCrossDerivatives THEN <<1, 3, 5, 7>> ELSE range(8))
        s1 == [s \in 0..3 |-> <<1, s*2 + 2>>]
        s3 == [s \in 0..3 |-> <<1, s*2 + 3>>]
        t4 == linearMapDxi3(t3, <<1, 3, 5, 7>>, 0, s1, s3)
    IN  negateTerm(t4, <<5, 7>>, 2)

EftNames ==
    {"eft", "eftOuter", "eftOuterApex0", "eftOuterApex1", "eftOuterApex2",
     "eftInner1", "eftInner2"}

\* the element field template created under a name, for a cross-derivative mode
EftOf(name, useCrossDerivatives) ==
    CASE name = "eft" -> eft(useCrossDerivatives)
      [] name = "eftOuter" -> eftOuter(useCrossDerivatives)
      [] name = "eftOuterApex0" -> eftOuterApex0(useCrossDerivatives)
      [] name = "eftOuterApex1" -> eftOuterApex1(useCrossDerivatives)
      [] name = "eftOuterApex2" -> eftOuterApex2(useCrossDerivatives)
      [] name = "eftInner1" -> eftInner1(useCrossDerivatives)
      [] name = "eftInner2" -> eftInner2(useCrossDerivatives)

\* every eft, per cross-derivative mode, built once
EftTable ==
    [cross \in BOOLEAN |-> [name \in EftNames |-> EftOf(name, cross)]]

\* ------------------------------------------------------- generation: start
GenInit ==
    /\ pc = "beginChange"
    /\ beginCalls = 0
    /\ endCalls = 0
    /\ outside = FALSE
    /\ created = {}
    /\ n3 = 0
    /\ n2 = 0
    /\ n1 = 0
    /\ nodeIdentifier = 0
    /\ nodes = <<>>
    /\ e2 = 0
    /\ e1 = 0
    /\ elementIdentifier = 0
    /\ elements = <<>>

\* the host validates an option set, then may validate it again
InitOptions ==
    /\ raw \in RawOptions
    /\ options = raw
    /\ checks = 0
    /\ faultsLeft = 0
    /\ GenInit

CheckOptions ==
    /\ checks < MaxChecks
    /\ options' = checkOptions(options)
    /\ checks' = checks + 1
    /\ UNCHANGED <<raw, genVars>>

NextOptions == CheckOptions

SpecOptions == InitOptions /\ [][NextOptions]_vars

\* -------------------------------------------------------- generation: setup
elementsCountUp == options.up
elementsCountAcross == options.across
wallThickness == <<options.wtL, options.wtR>>
useCrossDerivatives == options.cross

\* between fm.beginChange() and fm.endChange()
InChange == beginCalls > endCalls

\* what the engine may answer to a creation call: failure while it has faults left
Outcomes == IF faultsLeft > 0 THEN BOOLEAN ELSE {TRUE}

Answer(ok) == faultsLeft' = IF ok THEN faultsLeft ELSE faultsLeft - 1

NodeLoopVars == <<n3, n2, n1, nodeIdentifier, nodes>>
ElementLoopVars == <<e2, e1, elementIdentifier, elements>>

BeginChange ==
    /\ pc = "beginChange"
    /\ beginCalls' = beginCalls + 1
    /\ pc' = "createField"
    /\ UNCHANGED <<raw, options, checks, endCalls, outside, created, NodeLoopVars,
                   ElementLoopVars, faultsLeft>>

\* a creation call on the field module, nodeset or mesh that adds `what`
Setup(at, what, next) ==
    /\ pc = at
    /\ created' = created \cup what
    /\ outside' = (outside \/ ~InChange)
    /\ pc' = next
    /\ UNCHANGED <<raw, options, checks, beginCalls, endCalls, ElementLoopVars,
                   faultsLeft>>

CreateFieldFiniteElement ==
    /\ Setup("createField", {"coordinates"}, "createNodetemplates")
    /\ UNCHANGED NodeLoopVars

NodetemplateApexLabels == {"VALUE", "D_DS1", "D_DS2", "D_DS3"}

\* the labels of nodetemplate: its own 8 with cross derivatives, else it is
\* nodetemplateApex
NodetemplateLabels ==
    IF useCrossDerivatives
    THEN {"VALUE", "D_DS1", "D_DS2", "D2_DS1DS2", "D_DS3", "D2_DS1DS3",
          "D2_DS2DS3", "D3_DS1DS2DS3"}
    ELSE NodetemplateApexLabels

CreateNodetemplates ==
    /\ Setup("createNodetemplates",
             IF useCrossDerivatives THEN {"nodetemplateApex", "nodetemplate"}
             ELSE {"nodetemplateApex"},
             "createElementfieldtemplates")
    /\ UNCHANGED NodeLoopVars

CreateElementfieldtemplates ==
    /\ Setup("createElementfieldtemplates", EftNames, "createElementtemplates")
    /\ UNCHANGED NodeLoopVars

ElementtemplateNames ==
    {"elementtemplate", "elementtemplateOuter", "elementtemplateOuterApex0",
     "elementtemplateOuterApex1", "elementtemplateOuterApex2",
     "elementtemplateInner1", "elementtemplateInner2"}

\* the element templates, then "nodeIdentifier = 1" and the entry of "for n3"
CreateElementtemplates ==
    /\ Setup("createElementtemplates", ElementtemplateNames, "bottomApexNode1")
    /\ nodeIdentifier' = 1
    /\ n3' = 0
    /\ UNCHANGED <<n2, n1, nodes>>

\* -------------------------------------------------------- generation: nodes
wallThicknessMax == IF wallThickness[1] >= wallThickness[2] THEN wallThickness[1]
                    ELSE wallThickness[2]

radiusX == Half - wallThicknessMax

\* mag = sqrt(dx_ds1[0]^2 + dx_ds1[2]^2) is zero exactly when both components
\* are: dx_ds1[0] = -sign*sinRadiansUp*mag1*cos(pi/4) with sinRadiansUp # 0 for
\* 0 < n2 < elementsCountUp, so exactly when mag1 = 2.0*radius/elementsCountAcross
\* is zero, radius being radiusX
magIsZero == (2 * radiusX = 0) \/ (n2 % elementsCountUp = 0)

\* y-coordinates are exact rationals counted in units of 1/(8*A^4), A being
\* elementsCountAcross: 0.5*wallThicknessSeptum is wallThicknessSeptum/8, and
\* 8.0*radiusY*radiusX/elementsCountAcross is wallThicknessSeptum*radiusX/(4*A)
wallThicknessSeptum == wallThickness[1]
sign == IF n3 = 0 THEN -1 ELSE 1
radiusY == wallThicknessSeptum * elementsCountAcross^4
sideBulge == 2 * wallThicknessSeptum * radiusX * elementsCountAcross^3

\* one component of interpolateCubicHermite(v1, d1, v2, d2, xi) at xi = p/A
interpolateCubicHermite(v1, d1, v2, d2, p) ==
    LET a == elementsCountAcross
        f1 == a^3 - 3*p*p*a + 2*p*p*p
        f2 == p*a*a - 2*p*p*a + p*p*p
        f3 == 3*p*p*a - 2*p*p*p
        f4 == p*p*p - p*p*a
    IN  (f1*v1 + f2*d1 + f3*v2 + f4*d2) \div a^3

\* x[1] of the nodes of the outer surface (apex and columns 0, A + 2)
outerY ==
    IF wallThickness[1] > wallThickness[2] THEN -sign*radiusY - sideBulge
    ELSE IF wallThickness[1] < wallThickness[2] THEN -sign*radiusY + sideBulge
    ELSE -sign*radiusY

\* x[1] of the nodes of the inner surface (apex and columns 1, A + 1)
innerY == -sign*(radiusY + sideBulge)

\* x[1] of a septum node (columns 2..A): component 1 of v, interpolated from
\* v1[1] = v2[1] = -sign*radiusY and d1[1] = d2[1] = 0.0 at cxi
septumY ==
    LET flipHalf == (n1 - 1)*2 > elementsCountAcross
        cxi == IF flipHalf THEN 2*elementsCountAcross - 2*(n1 - 1) ELSE 2*(n1 - 1)
    IN  interpolateCubicHermite(-sign*radiusY, 0, -sign*radiusY, 0, cxi)

createNodeKeepsIdentifier(labels, parameters, x1, ring, row, col, ok) ==
    /\ nodes' = Append(nodes,
          [id |-> nodeIdentifier, labels |-> labels, parameters |-> parameters,
           y |-> x1, n3 |-> n3, n2 |-> row, n1 |-> col, ring |-> ring, ok |-> ok])
    /\ nodeIdentifier' = nodeIdentifier
    /\ outside' = (outside \/ ~InChange)
    /\ Answer(ok)
    /\ UNCHANGED <<raw, options, checks, beginCalls, endCalls, created,
                   e2, e1, elements>>

\* nodes.createNode(nodeIdentifier, template) and the setNodeParameters calls on it;
\* x1: the y-coordinate x[1] set as its VALUE; ring: which surface the node lies
\* on; row, col: its place (col -1: an apex node)
createNode(labels, parameters, x1, ring, row, col, ok) ==
    /\ nodes' = Append(nodes,
          [id |-> nodeIdentifier, labels |-> labels, parameters |-> parameters,
           y |-> x1, n3 |-> n3, n2 |-> row, n1 |-> col, ring |-> ring, ok |-> ok])
    /\ nodeIdentifier' = nodeIdentifier + 1
    /\ outside' = (outside \/ ~InChange)
    /\ Answer(ok)
    /\ UNCHANGED <<raw, options, checks, beginCalls, endCalls, created,
                   e2, e1, elements>>

ApexParameters == {"VALUE", "D_DS1", "D_DS2", "D_DS3"}

RowParameters ==
    IF useCrossDerivatives
    THEN {"VALUE", "D_DS1", "D_DS2", "D_DS3", "D2_DS1DS2", "D2_DS1DS3", "D2_DS2DS3",
          "D3_DS1DS2DS3"}
    ELSE {"VALUE", "D_DS1", "D_DS2", "D_DS3"}

\* first bottom apex node: radius = radiusX + wallThickness[n3]
CreateBottomApexNode1 ==
    /\ pc = "bottomApexNode1"
    /\ \E ok \in Outcomes :
          createNode(NodetemplateApexLabels, ApexParameters, outerY, "outer", 0, -1,
                     ok)
    /\ pc' = "bottomApexNode2"
    /\ UNCHANGED <<n3, n2, n1, elementIdentifier>>

\* second bottom apex node: radius = radiusX; then the entry of "for n2", "for n1"
CreateBottomApexNode2 ==
    /\ pc = "bottomApexNode2"
    /\ \E ok \in Outcomes :
          createNode(NodetemplateApexLabels, ApexParameters, innerY, "inner", 0, -1,
                     ok)
    /\ pc' = "rowNode"
    /\ n2' = 1
    /\ n1' = 0
    /\ UNCHANGED <<n3, elementIdentifier>>

RowRing ==
    IF (n1 = 0) \/ (n1 = elementsCountAcross + 2) THEN "outer"
    ELSE IF (n1 = 1) \/ (n1 = elementsCountAcross + 1) THEN "inner"
    ELSE "septum"

\* x[1] of the row node of column n1: the three branches of the body of "for n1"
RowY ==
    IF (n1 = 0) \/ (n1 = elementsCountAcross + 2) THEN outerY
    ELSE IF (n1 = 1) \/ (n1 = elementsCountAcross + 1) THEN innerY
    ELSE septumY

\* one pass of the body of "for n1 in range(elementsCountAcross + 3)"
CreateRowNode ==
    /\ pc = "rowNode"
    /\ ~(n1 = 1 /\ magIsZero)
    /\ \E ok \in Outcomes :
          createNode(NodetemplateLabels, RowParameters, RowY, RowRing, n2, n1, ok)
    /\ IF n1 < elementsCountAcross + 2
       THEN n1' = n1 + 1 /\ UNCHANGED <<n2, pc>>
       ELSE IF n2 < elementsCountUp - 1
            THEN n2' = n2 + 1 /\ n1' = 0 /\ UNCHANGED pc
            ELSE pc' = "topApexNode1" /\ UNCHANGED <<n2, n1>>
    /\ UNCHANGED <<n3, elementIdentifier>>

\* scale1 = -sign/mag*radius*sinRadiansUp with mag = 0.0: ZeroDivisionError leaves
\* generateMesh before the node of column 1 is created
RaiseZeroDivisionError ==
    /\ pc = "rowNode"
    /\ n1 = 1 /\ magIsZero
    /\ pc' = "raised"
    /\ UNCHANGED <<raw, options, checks, beginCalls, endCalls, outside, created,
                   NodeLoopVars, ElementLoopVars, faultsLeft>>

\* first top apex node: radius = radiusX
CreateTopApexNode1 ==
    /\ pc = "topApexNode1"
    /\ \E ok \in Outcomes :
          createNode(NodetemplateApexLabels, ApexParameters, innerY, "inner",
                     elementsCountUp, -1, ok)
    /\ pc' = "topApexNode2"
    /\ UNCHANGED <<n3, n2, n1, elementIdentifier>>

\* second top apex node: radius = radiusX + wallThickness[n3]; then the next wall
\* side, or "elementIdentifier = 1"
CreateTopApexNode2 ==
    /\ pc = "topApexNode2"
    /\ \E ok \in Outcomes :
          createNode(NodetemplateApexLabels, ApexParameters, outerY, "outer",
                     elementsCountUp, -1, ok)
    /\ IF n3 = 0
       THEN n3' = 1 /\ pc' = "bottomApexNode1" /\ UNCHANGED elementIdentifier
       ELSE n3' = 2 /\ pc' = "bottomApexElement1" /\ elementIdentifier' = 1
    /\ UNCHANGED <<n2, n1>>

\* ----------------------------------------------------- generation: elements
\* a scale factor value sign * cos(0.25*pi)^k; Unset: no value was given
cos45 == [s |-> 1, k |-> 1]
Neg(v) == [v EXCEPT !.s = -@]
MinusOne == [s |-> -1, k |-> 0]
Unset == [s |-> 0, k |-> -1]

scaleFactorsOuter ==
    <<cos45, cos45, cos45, Neg(cos45),
      cos45, cos45, cos45, Neg(cos45)>>

scaleFactorsOuterApex1 ==
    <<MinusOne,
      Neg(cos45), cos45, Neg(cos45), Neg(cos45),
      cos45, cos45, cos45, Neg(cos45)>>

scaleFactorsOuterApex2 ==
    <<MinusOne,
      cos45, cos45, cos45, Neg(cos45),
      Neg(cos45), cos45, Neg(cos45), Neg(cos45)>>

\* defined by the source, and used by none of its calls
scaleFactorsInner1 ==
    <<MinusOne,
      cos45, cos45, cos45, cos45,
      cos45, Neg(cos45), cos45, Neg(cos45)>>

rno == elementsCountAcross + 3
wnoWithoutTopApexes == (elementsCountUp - 1)*rno + 2
wnoOneRowShort == (elementsCountUp - 2)*rno + 4
wno == (elementsCountUp - 1)*rno + 4
bnOneRowUp == (e2 + 1)*rno + 2
bn == e2*rno + 2

\* the scale factors of a new element of an eft: one slot per local scale factor
newScaleFactors(eftName) ==
    [i \in 1..EftTable[useCrossDerivatives][eftName].nsf |-> Unset]

\* element.setScaleFactors(eft, values): all the values, in order
setScaleFactors(sf, values) == IF Len(values) = Len(sf) THEN values ELSE sf

\* element.setScaleFactor(eft, index, value)
setScaleFactor(sf, index, value) == [sf EXCEPT ![index] = value]

\* mesh.createElement(elementIdentifier, template), setNodesByIdentifier(eft, ...)
\* and the scale factor calls made on the element
createElement(template, eftName, nodeIdentifiers, sf, ok) ==
    /\ elements' = Append(elements,
          [id |-> elementIdentifier, template |-> template, eft |-> eftName,
           nodes |-> nodeIdentifiers, sf |-> sf, ok |-> ok])
    /\ elementIdentifier' = elementIdentifier + 1
    /\ outside' = (outside \/ ~InChange)
    /\ Answer(ok)
    /\ UNCHANGED <<raw, options, checks, beginCalls, endCalls, created,
                   NodeLoopVars>>

EnterRowOneTooMany(next) ==
    IF next < elementsCountUp - 1
    THEN e2' = next /\ pc' = "outerElement1"
    ELSE UNCHANGED e2 /\ pc' = "topApexElement1"

\* where the code goes after the bottom apex row or after a row: "for e2 in
\* range(0, elementsCountUp - 2)" at e2 = next, or the top apex row
EnterRow(next) ==
    IF next < elementsCountUp - 2
    THEN e2' = next /\ pc' = "outerElement1"
    ELSE UNCHANGED e2 /\ pc' = "topApexElement1"

CreateBottomApexElement1 ==
    /\ pc = "bottomApexElement1"
    /\ LET bni11 == 2
           bni12 == 2 + wno
           bni21 == 4
           bni22 == 4 + wno
           nodeIdentifiers == <<bni11, bni12, bni21, bni22,
                                bni11 - 1, bni12 - 1, bni21 - 1, bni22 - 1>>
       IN  \E ok \in Outcomes :
              createElement("elementtemplateOuterApex1", "eftOuterApex1",
                  nodeIdentifiers,
                  setScaleFactors(newScaleFactors("eftOuterApex1"),
                                  scaleFactorsOuterApex1), ok)
    /\ pc' = "bottomApexElement2"
    /\ UNCHANGED <<e2, e1>>

CreateBottomApexElement2 ==
    /\ pc = "bottomApexElement2"
    /\ LET bni11 == wno + 2
           bni12 == 2
           bni21 == wno + rno + 1
           bni22 == rno + 1
           nodeIdentifiers == <<bni11, bni12, bni21, bni22,
                                bni11 - 1, bni12 - 1, bni21 + 1, bni22 + 1>>
       IN  \E ok \in Outcomes :
              createElement("elementtemplateOuterApex0", "eftOuterApex0",
                  nodeIdentifiers,
                  setScaleFactors(newScaleFactors("eftOuterApex0"),
                                  scaleFactorsOuter), ok)
    /\ EnterRow(0)
    /\ UNCHANGED e1

CreateOuterElement1 ==
    /\ pc = "outerElement1"
    /\ LET bni11 == bn + 2
           bni12 == bn + wno + 2
           bni21 == bn + rno + 2
           bni22 == bn + wno + rno + 2
           nodeIdentifiers == <<bni11, bni12, bni21, bni22,
                                bni11 - 1, bni12 - 1, bni21 - 1, bni22 - 1>>
       IN  \E ok \in Outcomes :
              createElement("elementtemplateOuter", "eftOuter", nodeIdentifiers,
                  setScaleFactors(newScaleFactors("eftOuter"), scaleFactorsOuter),
                  ok)
    /\ pc' = "inner1Element"
    /\ UNCHANGED <<e2, e1>>

\* only scale factor 1 is set: element.setScaleFactor(eftInner1, 1, -1.0)
CreateInner1Element ==
    /\ pc = "inner1Element"
    /\ LET bni11 == bn + 2
           bni12 == bn + 3
           bni21 == bn + rno + 2
           bni22 == bn + rno + 3
           nodeIdentifiers == <<bni11, bni12, bni21, bni22,
                                bni11 + wno, bni12 + wno, bni21 + wno, bni22 + wno>>
       IN  \E ok \in Outcomes :
              createElement("elementtemplateInner1", "eftInner1", nodeIdentifiers,
                  setScaleFactor(newScaleFactors("eftInner1"), 1, MinusOne), ok)
    /\ IF 0 < elementsCountAcross - 2
       THEN e1' = 0 /\ pc' = "regularElement"
       ELSE UNCHANGED e1 /\ pc' = "inner2Element"
    /\ UNCHANGED e2

CreateRegularElementFromInner2Template ==
    /\ pc = "regularElement"
    /\ LET bni11 == bn + e1 + 3
           bni12 == bn + e1 + 4
           bni21 == bn + rno + e1 + 3
           bni22 == bn + rno + e1 + 4
           nodeIdentifiers == <<bni11, bni12, bni21, bni22,
                                bni11 + wno, bni12 + wno, bni21 + wno, bni22 + wno>>
       IN  \E ok \in Outcomes :
              createElement("elementtemplateInner2", "eftInner2", nodeIdentifiers,
                            newScaleFactors("eftInner2"), ok)
    /\ IF e1 + 1 < elementsCountAcross - 2
       THEN e1' = e1 + 1 /\ UNCHANGED pc
       ELSE UNCHANGED e1 /\ pc' = "inner2Element"
    /\ UNCHANGED e2

\* one pass of the body of "for e1 in range(elementsCountAcross - 2)"
CreateRegularElement ==
    /\ pc = "regularElement"
    /\ LET bni11 == bn + e1 + 3
           bni12 == bn + e1 + 4
           bni21 == bn + rno + e1 + 3
           bni22 == bn + rno + e1 + 4
           nodeIdentifiers == <<bni11, bni12, bni21, bni22,
                                bni11 + wno, bni12 + wno, bni21 + wno, bni22 + wno>>
       IN  \E ok \in Outcomes :
              createElement("elementtemplate", "eft", nodeIdentifiers,
                            newScaleFactors("eft"), ok)
    /\ IF e1 + 1 < elementsCountAcross - 2
       THEN e1' = e1 + 1 /\ UNCHANGED pc
       ELSE UNCHANGED e1 /\ pc' = "inner2Element"
    /\ UNCHANGED e2

\* only scale factor 1 is set: element.setScaleFactor(eftInner2, 1, -1.0)
CreateInner2Element ==
    /\ pc = "inner2Element"
    /\ LET bni11 == bn + rno - 2
           bni12 == bn + rno - 1
           bni21 == bn + 2*rno - 2
           bni22 == bn + 2*rno - 1
           nodeIdentifiers == <<bni11, bni12, bni21, bni22,
                                bni11 + wno, bni12 + wno, bni21 + wno, bni22 + wno>>
       IN  \E ok \in Outcomes :
              createElement("elementtemplateInner2", "eftInner2", nodeIdentifiers,
                  setScaleFactor(newScaleFactors("eftInner2"), 1, MinusOne), ok)
    /\ pc' = "outerElement2"
    /\ UNCHANGED <<e2, e1>>

CreateOuterElement2 ==
    /\ pc = "outerElement2"
    /\ LET bni11 == bn + wno + rno - 1
           bni12 == bn + rno - 1
           bni21 == bn + wno + 2*rno - 1
           bni22 == bn + 2*rno - 1
           nodeIdentifiers == <<bni11, bni12, bni21, bni22,
                                bni11 + 1, bni12 + 1, bni21 + 1, bni22 + 1>>
       IN  \E ok \in Outcomes :
              createElement("elementtemplateOuter", "eftOuter", nodeIdentifiers,
                  setScaleFactors(newScaleFactors("eftOuter"), scaleFactorsOuter),
                  ok)
    /\ EnterRow(e2 + 1)
    /\ UNCHANGED e1

CreateTopApexElement1 ==
    /\ pc = "topApexElement1"
    /\ LET bni11 == wno - rno
           bni12 == 2*wno - rno
           bni21 == wno - 1
           bni22 == 2*wno - 1
           nodeIdentifiers == <<bni11, bni12, bni21, bni22,
                                bni11 - 1, bni12 - 1, bni21 + 1, bni22 + 1>>
       IN  \E ok \in Outcomes :
              createElement("elementtemplateOuterApex0", "eftOuterApex0",
                  nodeIdentifiers,
                  setScaleFactors(newScaleFactors("eftOuterApex0"),
                                  scaleFactorsOuter), ok)
    /\ pc' = "topApexElement2"
    /\ UNCHANGED <<e2, e1>>

CreateTopApexElement2 ==
    /\ pc = "topApexElement2"
    /\ LET bni11 == 2*wno - 3
           bni12 == wno - 3
           bni21 == 2*wno - 1
           bni22 == wno - 1
           nodeIdentifiers == <<bni11, bni12, bni21, bni22,
                                bni11 + 1, bni12 + 1, bni21 + 1, bni22 + 1>>
       IN  \E ok \in Outcomes :
              createElement("elementtemplateOuterApex2", "eftOuterApex2",
                  nodeIdentifiers,
                  setScaleFactors(newScaleFactors("eftOuterApex2"),
                                  scaleFactorsOuterApex2), ok)
    /\ pc' = "endChange"
    /\ UNCHANGED <<e2, e1>>

EndChange ==
    /\ pc = "endChange"
    /\ endCalls' = endCalls + 1
    /\ pc' = "done"
    /\ UNCHANGED <<raw, options, checks, beginCalls, outside, created, NodeLoopVars,
                   ElementLoopVars, faultsLeft>>

\* ------------------------------------------------------------ specifications
\* generateMesh(region, options) on an empty region, options as checkOptions
\* leaves them, the engine answering every call with success
Init ==
    /\ raw \in ValidOptions
    /\ options = raw
    /\ checks = 0
    /\ faultsLeft = 0
    /\ GenInit

Next ==
    \/ BeginChange
    \/ CreateFieldFiniteElement
    \/ CreateNodetemplates
    \/ CreateElementfieldtemplates
    \/ CreateElementtemplates
    \/ CreateBottomApexNode1
    \/ CreateBottomApexNode2
    \/ CreateRowNode
    \/ RaiseZeroDivisionError
    \/ CreateTopApexNode1
    \/ CreateTopApexNode2
    \/ CreateBottomApexElement1
    \/ CreateBottomApexElement2
    \/ CreateOuterElement1
    \/ CreateInner1Element
    \/ CreateRegularElement
    \/ CreateInner2Element
    \/ CreateOuterElement2
    \/ CreateTopApexElement1
    \/ CreateTopApexElement2
    \/ EndChange

Spec == Init /\ [][Next]_vars

\* the same run on a region whose engine may report failure of a createNode or
\* createElement call
FaultOptions ==
    {getDefaultOptions, [getDefaultOptions EXCEPT !.up = 3, !.across = 3],
     [getDefaultOptions EXCEPT !.up = 2, !.wtR = MaxThickness]}

InitFault ==
    /\ raw \in FaultOptions
    /\ options = raw
    /\ checks = 0
    /\ faultsLeft = MaxFaults
    /\ GenInit

SpecFault == InitFault /\ [][Next]_vars

\* ------------------------------------------------------------------ claims
U == elementsCountUp
A == elementsCountAcross

\* C1, as stated: a completed generateMesh has created 2 + 2 + (U-2)*(3 + (A-2))
\* elements
C1_ElementCountAsStated ==
    pc = "done" => Len(elements) = 2 + 2 + (U - 2)*(3 + (A - 2))

\* C1, amended: a completed generateMesh has created 2 + 2 + (U-2)*(4 + (A-2))
\* elements, an interior row holding outer, inner1, A-2 regular, inner2, outer;
\* U=2, A=2 gives 4 elements and U=4, A=2 gives 12
C1_ElementCount ==
    pc = "done" =>
        /\ Len(elements) = 2 + 2 + (U - 2)*(4 + (A - 2))
        /\ (U = 2 /\ A = 2) => Len(elements) = 4
        /\ (U = 4 /\ A = 2) => Len(elements) = 12

C1_Witness ==
    pc = "done" /\ U = 4 /\ A = 2 /\ Len(elements) = 12

\* the place in creation order of the node of wall side s, row r, column c
PlaceOfRowNode(s, r, c) == s*(4 + (U - 1)*(A + 3)) + 2 + (r - 1)*(A + 3) + c + 1

\* C2: the createNode calls carry the identifiers 1, 2, 3, ... in order of
\* creation, each once; once node creation is over there are
\* N = 2*(4 + (U-1)*(A+3)) of them, per wall side 2 bottom apex nodes, the rows
\* n2 = 1..U-1 with columns n1 = 0..A+2 in order, 2 top apex nodes
C2_NodeIdentifiers ==
    LET N == 2*(4 + (U - 1)*(A + 3))
        W == 4 + (U - 1)*(A + 3)
    IN  /\ \A i \in 1..Len(nodes) : nodes[i].id = i
        /\ (n3 = 2) =>
              /\ Len(nodes) = N
              /\ \A s \in 0..1 :
                    /\ \A i \in {s*W + 1, s*W + 2} :
                          nodes[i].n3 = s /\ nodes[i].n2 = 0 /\ nodes[i].n1 = -1
                    /\ \A r \in 1..(U - 1) : \A c \in 0..(A + 2) :
                          LET node == nodes[PlaceOfRowNode(s, r, c)]
                          IN  node.n3 = s /\ node.n2 = r /\ node.n1 = c
                    /\ \A i \in {s*W + W - 1, s*W + W} :
                          nodes[i].n3 = s /\ nodes[i].n2 = U /\ nodes[i].n1 = -1
        /\ (pc = "done" /\ U = 2 /\ A = 2) => Len(nodes) = 18
        /\ (pc = "done" /\ U = 4 /\ A = 2) => Len(nodes) = 38

C2_Witness ==
    pc = "done" /\ U = 4 /\ A = 2 /\ Len(nodes) = 38 /\ nodes[38].id = 38

Max(a, b) == IF a >= b THEN a ELSE b
Min(a, b) == IF a <= b THEN a ELSE b

ReferenceClamp(o) ==
    [up |-> Max(o.up, 2),
     across |-> Max(o.across, 2),
     wtL |-> Min(Max(o.wtL, 0), MaxThickness),
     wtR |-> Min(Max(o.wtR, 0), MaxThickness),
     offset |-> Max(o.offset, 0),
     cross |-> o.cross]

InRange(o) ==
    /\ o.up >= 2 /\ o.across >= 2 /\ o.offset >= 0
    /\ o.wtL >= 0 /\ o.wtL <= MaxThickness
    /\ o.wtR >= 0 /\ o.wtR <= MaxThickness

\* C3: after one or more checkOptions calls the options are the reference clamp
\* of the options first passed (so a second call changes nothing), and options
\* already in range are left as they were
C3_CheckOptionsClamps ==
    checks >= 1 =>
        /\ options = ReferenceClamp(raw)
        /\ InRange(raw) => options = raw

C3_Witness ==
    /\ checks = 2
    /\ raw.up < 2 /\ options.up = 2
    /\ raw.wtL > MaxThickness /\ options.wtL = MaxThickness
    /\ raw.wtR < 0 /\ options.wtR = 0
    /\ raw.offset < 0 /\ options.offset = 0

\* the element templates of one interior row, in creation order
RowOrder ==
    <<"elementtemplateOuter", "elementtemplateInner1">>
    \o [i \in 1..(A - 2) |-> "elementtemplate"]
    \o <<"elementtemplateInner2", "elementtemplateOuter">>

RECURSIVE Rows(_)
Rows(count) == IF count = 0 THEN <<>> ELSE RowOrder \o Rows(count - 1)

ExpectedOrder ==
    <<"elementtemplateOuterApex1", "elementtemplateOuterApex0">>
    \o Rows(U - 2)
    \o <<"elementtemplateOuterApex0", "elementtemplateOuterApex2">>

\* C9: at every moment the elements created so far carry the identifiers
\* 1, 2, 3, ... and their templates are the start of: outerApex1, outerApex0;
\* U-2 rows of outer, inner1, A-2 regular, inner2, outer; outerApex0, outerApex2;
\* and a completed run has created all of that sequence
C9_ElementOrder ==
    /\ Len(elements) <= Len(ExpectedOrder)
    /\ \A i \in 1..Len(elements) :
          elements[i].id = i /\ elements[i].template = ExpectedOrder[i]
    /\ pc = "done" => Len(elements) = Len(ExpectedOrder)

C9_Witness ==
    /\ pc = "done" /\ U = 4 /\ A = 4 /\ Len(elements) = 16
    /\ elements[3].template = "elementtemplateOuter"
    /\ elements[5].template = "elementtemplate"
    /\ elements[16].template = "elementtemplateOuterApex2"

\* C4: beginChange is called once, before any creation or parameter-setting
\* call; every run, however it ends, has called endChange once, after the last
\* element creation; no such call is made outside beginChange..endChange
C4_ChangeBracket ==
    /\ ~outside
    /\ beginCalls <= 1 /\ endCalls <= beginCalls
    /\ endCalls = 1 => pc = "done"
    /\ pc \in {"done", "raised"} => (beginCalls = 1 /\ endCalls = 1)

\* the createNode and createElement calls in the order they were made
Calls ==
    [i \in 1..(Len(nodes) + Len(elements)) |->
        IF i <= Len(nodes) THEN nodes[i].ok ELSE elements[i - Len(nodes)].ok]

\* C5: once a creation call has reported failure no further node or element is
\* created and generateMesh does not return as if it had succeeded
C5_FailureIsFatal ==
    \A i \in 1..Len(Calls) : ~Calls[i] => (i = Len(Calls) /\ pc # "done")

\* the amount added to the plain identifier (s % 2) + 1 of the node-general
\* scale factor at index i of an eft whose node-general ones start at first
AmountAdded(t, first, i) == t.sfId[i] - (((i - first) % 2) + 1)

\* C6: in outerApex0, outerApex1 and outerApex2 the amount added to the
\* identifiers of the apex scale factors is the option 'Apex scale factor
\* identifier offset', and nothing is added to the others
C6_ApexOffsetIsTheOption ==
    "eftOuterApex0" \in created =>
        LET t0 == EftTable[useCrossDerivatives]["eftOuterApex0"]
            t1 == EftTable[useCrossDerivatives]["eftOuterApex1"]
            t2 == EftTable[useCrossDerivatives]["eftOuterApex2"]
        IN  /\ \A i \in 1..8 :
                  AmountAdded(t0, 1, i) = IF i <= 4 THEN options.offset ELSE 0
            /\ \A i \in 2..9 :
                  AmountAdded(t1, 2, i) = IF i - 2 < 4 THEN options.offset ELSE 0
            /\ \A i \in 2..9 :
                  AmountAdded(t2, 2, i) = IF i - 2 >= 4 THEN options.offset ELSE 0

\* C7: every element whose eft declares k > 0 local scale factors has been given
\* a value for each of the k
C7_AllScaleFactorsGiven ==
    \A n \in 1..Len(elements) :
        LET e == elements[n]
            k == EftTable[useCrossDerivatives][e.eft].nsf
        IN  k > 0 => (Len(e.sf) = k /\ \A i \in 1..k : e.sf[i] # Unset)

\* the coordinate xi_d (0 or 1) of local node ln (1..8) of an element, local
\* nodes being listed in the order 000, 100, 010, 110, 001, 101, 011, 111
Xi(ln, d) ==
    CASE d = 1 -> (ln - 1) % 2
      [] d = 2 -> ((ln - 1) \div 2) % 2
      [] d = 3 -> ((ln - 1) \div 4) % 2

\* the node created with identifier id stands at wall side s, row r, column c;
\* an apex node (row 0 or U) stands for the inner or the outer boundary column
StandsAt(id, s, r, c) ==
    /\ id \in 1..Len(nodes)
    /\ LET node == nodes[id]
       IN  /\ node.id = id /\ node.n3 = s /\ node.n2 = r
           /\ IF node.n1 = -1
              THEN \/ node.ring = "inner" /\ c \in {1, A + 1}
                   \/ node.ring = "outer" /\ c \in {0, A + 2}
              ELSE node.n1 = c

\* xi1 is column c -> c + 1, xi2 row r -> r + 1, xi3 wall side 0 -> 1
SeptumCell(e, r, c) ==
    \A ln \in 1..8 :
        StandsAt(e.nodes[ln], Xi(ln, 3), r + Xi(ln, 2), c + Xi(ln, 1))

\* xi1 switches wall side starting from s, xi2 is row r -> r + 1, xi3 goes from
\* the inner boundary column cin to the outer boundary column next to it
WallCell(e, s, r, cin) ==
    /\ cin \in {1, A + 1}
    /\ \A ln \in 1..8 :
          StandsAt(e.nodes[ln],
                   IF Xi(ln, 1) = 0 THEN s ELSE 1 - s,
                   r + Xi(ln, 2),
                   IF Xi(ln, 3) = 0 THEN cin
                   ELSE IF cin = 1 THEN 0 ELSE A + 2)

SeptumEfts == {"eftInner1", "eft", "eftInner2"}

\* C10: every element's 8 node identifiers list a unit cell of the (wall side,
\* row, column) index space in local order 000, 100, ..., 111: a septum cell
\* for inner1, regular and inner2 elements, which in a row stand at columns
\* 1, 2, ..., A one after the other (so covering columns 1..A+1), a wall cell
\* for outer and apex elements
C10_UnitCells ==
    \A n \in 1..Len(elements) :
        LET e == elements[n]
        IN  IF e.eft \in SeptumEfts
            THEN \E r \in 1..(U - 2) : \E c \in 1..A :
                    /\ SeptumCell(e, r, c)
                    /\ (e.eft = "eftInner1") <=> (c = 1)
                    /\ (e.eft = "eftInner2") <=> (c = A)
                    /\ c > 1 => /\ elements[n - 1].eft \in SeptumEfts
                                /\ SeptumCell(elements[n - 1], r, c - 1)
            ELSE \E s \in 0..1 : \E r \in 0..(U - 1) : \E cin \in {1, A + 1} :
                    WallCell(e, s, r, cin)

C10_Witness ==
    /\ pc = "done" /\ U = 4 /\ A = 4
    /\ SeptumCell(elements[5], 1, 2) /\ SeptumCell(elements[6], 1, 3)
    /\ WallCell(elements[1], 0, 0, 1) /\ WallCell(elements[16], 1, 3, A + 1)

One == [s |-> 1, k |-> 0]
Zero == [s |-> 0, k |-> 0]

\* product of two scale factor values; a factor never given leaves it unknown
Mul(a, b) ==
    IF a = Unset \/ b = Unset THEN Unset
    ELSE IF a.s = 0 \/ b.s = 0 THEN Zero
    ELSE [s |-> a.s * b.s, k |-> a.k + b.k]

\* the product of the element's scale factors at the indexes of a term's scaling
RECURSIVE ScaleProduct(_, _)
ScaleProduct(sf, indexes) ==
    IF indexes = <<>> THEN One
    ELSE Mul(sf[Head(indexes)], ScaleProduct(sf, Tail(indexes)))

\* the basis function of a local node that is its derivative along xi_d
DerivativeFunction(ln, d) ==
    (ln - 1)*8 + (CASE d = 1 -> 2 [] d = 2 -> 3 [] d = 3 -> 5)

\* d/dxi_d at local node ln of element e as a combination of the parameters of
\* that node: the coefficient of each value label
Combination(e, ln, d) ==
    LET terms == EftTable[useCrossDerivatives][e.eft].terms[DerivativeFunction(ln, d)]
    IN  [label \in {"D_DS1", "D_DS2", "D_DS3"} |->
            IF \E i \in 1..Len(terms) : terms[i].label = label /\ terms[i].ln = ln
            THEN LET i == CHOOSE i \in 1..Len(terms) :
                              terms[i].label = label /\ terms[i].ln = ln
                 IN  ScaleProduct(e.sf, terms[i].scaling)
            ELSE Zero]

Negated(combination) ==
    [label \in DOMAIN combination |-> Neg(combination[label])]

NodeSet(e) == {e.nodes[ln] : ln \in 1..8}

LocalNode(e, id) == CHOOSE ln \in 1..8 : e.nodes[ln] = id

\* the local node next to ln along xi_d
Along(ln, d) ==
    LET step == CASE d = 1 -> 1 [] d = 2 -> 2 [] d = 3 -> 4
    IN  IF Xi(ln, d) = 0 THEN ln + step ELSE ln - step

\* C8: for two elements with a common face (4 common nodes), at each common
\* node g and for each edge g - g2 of the common face, the derivative along
\* that edge is the same combination of g's D_DS1, D_DS2, D_DS3 in both
\* elements, up to sign
C8_FaceContinuity ==
    \A m \in 1..Len(elements) : \A n \in 1..Len(elements) :
        LET a == elements[m]
            b == elements[n]
            common == NodeSet(a) \cap NodeSet(b)
        IN  (m < n /\ Cardinality(common) = 4) =>
                \A g \in common : \A d \in 1..3 :
                    LET la == LocalNode(a, g)
                        lb == LocalNode(b, g)
                        g2 == a.nodes[Along(la, d)]
                    IN  g2 \in common =>
                            \E dd \in 1..3 :
                                /\ b.nodes[Along(lb, dd)] = g2
                                /\ \/ Combination(a, la, d) = Combination(b, lb, dd)
                                   \/ Combination(a, la, d) =
                                          Negated(Combination(b, lb, dd))

\* C11: elements are created only once N = 2*((U-1)*(A+3) + 4) nodes have been,
\* and each of the 8 node identifiers of every element lies in 1..N, the 8 of
\* one element being pairwise distinct
C11_NodeIdentifiersInRange ==
    LET N == 2*((U - 1)*(A + 3) + 4)
    IN  \A n \in 1..Len(elements) :
            LET e == elements[n]
            IN  /\ Len(nodes) = N
                /\ Len(e.nodes) = 8
                /\ \A ln \in 1..8 : e.nodes[ln] \in 1..N
                /\ \A la \in 1..8 : \A lb \in 1..8 :
                      la # lb => e.nodes[la] # e.nodes[lb]

\* the last inner2 element of U = 4, A = 4 reaches up to the last row node of
\* wall side 1, the first top apex element up to node N itself
C11_Witness ==
    /\ pc = "done" /\ U = 4 /\ A = 4 /\ Len(elements) = 16
    /\ elements[13].eft = "eftInner2" /\ elements[13].nodes[8] = 2*wno - 3
    /\ elements[15].nodes[8] = 2*((U - 1)*(A + 3) + 4)

\* C12: for options that checkOptions leaves unchanged, wall thicknesses 0 and
\* 0.5 included, generateMesh never reaches an arithmetic error: it does not end
\* in the division by the zero magnitude of the column-1 dx_ds1, and having
\* called beginChange it is either still on its way or has called endChange
C12_RunsToCompletion ==
    /\ options = checkOptions(options)
    /\ pc # "raised"
    /\ ~(pc = "rowNode" /\ n1 = 1 /\ magIsZero)

\* the nodal parameters (local node, value label) read by the terms of the
\* functions of an eft that were not suppressed
ParametersRead(t) ==
    UNION {{<<t.terms[fn][i].ln, t.terms[fn][i].label>> :
               i \in 1..Len(t.terms[fn])} : fn \in 1..64}

\* C13: with and without cross derivatives, every nodal parameter read by a
\* term of an element's eft at one of its 8 nodes is defined on that node by
\* the node template it was created with and was given a value; no element
\* reads a cross-derivative parameter from an apex node
C13_ParametersDefined ==
    \A n \in 1..Len(elements) :
        LET e == elements[n]
        IN  \A p \in ParametersRead(EftTable[useCrossDerivatives][e.eft]) :
                LET node == nodes[e.nodes[p[1]]]
                IN  /\ p[2] \in node.labels
                    /\ p[2] \in node.parameters

Uses(scaling, i) == \E j \in 1..Len(scaling) : scaling[j] = i

\* the local nodes whose terms are scaled by local scale factor i of an eft
ScaledNodes(t, i) ==
    UNION {{t.terms[fn][k].ln :
               k \in {k \in 1..Len(t.terms[fn]) : Uses(t.terms[fn][k].scaling, i)}} :
           fn \in 1..64}

\* the same for every eft, per cross-derivative mode, worked out once
ScaledNodesTable ==
    [cross \in BOOLEAN |-> [name \in EftNames |->
        [i \in 1..EftTable[cross][name].nsf |->
            ScaledNodes(EftTable[cross][name], i)]]]

\* the node-general scale factors an element was given a value for, each as
\* <<node identifier it is attached to, scale factor identifier, value>>
NodeGeneralValues(e) ==
    LET t == EftTable[useCrossDerivatives][e.eft]
        given == {i \in 1..t.nsf : t.sfType[i] = "NODE_GENERAL" /\ e.sf[i] # Unset}
    IN  UNION {{<<e.nodes[ln], t.sfId[i], e.sf[i]>> :
                   ln \in ScaledNodesTable[useCrossDerivatives][e.eft][i]} :
               i \in given}

\* C14: a node-general scale factor is determined by (node, identifier): two
\* values given, in one element or in two, to node-general scale factors with
\* the same identifier attached to the same node are equal, at the pole nodes
\* as elsewhere
C14_ScaleFactorsAgree ==
    \A m \in 1..Len(elements) : \A n \in 1..Len(elements) :
        \A p \in NodeGeneralValues(elements[m]) :
            \A q \in NodeGeneralValues(elements[n]) :
                (p[1] = q[1] /\ p[2] = q[2]) => p[3] = q[3]

ApexEfts == {"eftOuterApex0", "eftOuterApex1", "eftOuterApex2"}

\* the node created with this identifier is a pole node
IsApexNode(id) == nodes[id].n1 = -1

\* in element e, each node-general scale factor has the apex offset added to
\* its plain identifier 1 or 2 exactly when the node it is attached to is a pole
OffsetOnApexNodesOnly(e) ==
    LET t == EftTable[useCrossDerivatives][e.eft]
        first == IF e.eft = "eftOuterApex0" THEN 1 ELSE 2
    IN  \A i \in first..t.nsf :
            \A ln \in ScaledNodesTable[useCrossDerivatives][e.eft][i] :
                /\ t.sfType[i] = "NODE_GENERAL"
                /\ AmountAdded(t, first, i) =
                       IF IsApexNode(e.nodes[ln])
                       THEN apexScaleFactorIdentifierOffset ELSE 0

\* C15: in each of the four apex elements (outerApex1, outerApex0 at the
\* bottom, outerApex0, outerApex2 at the top) a node-general scale factor has
\* the apex offset in its identifier if and only if the local node whose
\* derivative term it scales is a pole node; those of row nodes keep 1 and 2
C15_OffsetOnlyAtApexNodes ==
    \A n \in 1..Len(elements) :
        elements[n].eft \in ApexEfts => OffsetOnApexNodesOnly(elements[n])

\* the functions n*8 + 4, n*8 + 6, n*8 + 7, n*8 + 8 of the local nodes n = 0..7
CrossDerivativeFunctions == {n*8 + f : n \in 0..7, f \in {4, 6, 7, 8}}

\* C16: without cross derivatives, in each of the seven efts created the
\* functions with 0 terms are exactly the four cross-derivative functions of
\* each of the 8 local nodes
C16_CrossDerivativesSuppressed ==
    (~useCrossDerivatives /\ EftNames \subseteq created) =>
        \A name \in EftNames : \A fn \in 1..64 :
            (Len(EftTable[useCrossDerivatives][name].terms[fn]) = 0)
                <=> (fn \in CrossDerivativeFunctions)

C16_Witness ==
    /\ ~useCrossDerivatives /\ EftNames \subseteq created /\ pc = "done"
    /\ Len(EftTable[useCrossDerivatives]["eftInner2"].terms[64]) = 0
    /\ Len(EftTable[useCrossDerivatives]["eftOuter"].terms[4]) = 0
    /\ Len(EftTable[useCrossDerivatives]["eftOuter"].terms[2]) = 2
    /\ Len(EftTable[useCrossDerivatives]["eft"].terms[1]) = 1

\* the node identifiers found in the octuple of at least one element
Referenced == UNION {NodeSet(elements[n]) : n \in 1..Len(elements)}

\* C17, as stated: for every U >= 2, A >= 2, after generateMesh has finished
\* the node octuples of the elements together are all of 1..N
C17_NoOrphanNodesAsStated ==
    pc = "done" => Referenced = 1..(2*((U - 1)*(A + 3) + 4))

\* C17, amended: after generateMesh has finished, for U >= 3 the node octuples
\* of the elements together are all of 1..N; for U = 2 they are all of 1..N but
\* the septum nodes (columns 2..A of the one row, on each wall side), which no
\* element references
C17_NoOrphanNodes ==
    pc = "done" =>
        LET N == 2*((U - 1)*(A + 3) + 4)
            septum == {id \in 1..N : nodes[id].ring = "septum"}
        IN  /\ Len(nodes) = N
            /\ Referenced \subseteq 1..N
            /\ U >= 3 => Referenced = 1..N
            /\ U = 2 => /\ (1..N) \ Referenced = septum
                        /\ Cardinality(septum) = 2*(A - 1)

C17_Witness ==
    /\ pc = "done" /\ U = 3 /\ A = 4 /\ Len(nodes) = 36
    /\ Referenced = 1..36
    /\ nodes[6].ring = "septum" /\ 6 \in NodeSet(elements[5])

\* C18: when 'Wall thickness left' equals 'Wall thickness right' the sideBulge
\* that generateMesh computes is zero, and every node created has
\* y = -sign*radiusY, sign being -1 on wall side 0 and +1 on wall side 1 and
\* radiusY half the septum thickness
C18_NoBulgeWhenEqual ==
    (options.wtL = options.wtR /\ nodes # <<>>) =>
        /\ sideBulge = 0
        /\ \A i \in 1..Len(nodes) :
              nodes[i].y = (IF nodes[i].n3 = 0 THEN 1 ELSE -1) * radiusY

====
